---- MODULE Spec2Model ----
(***************************************************************************)
(* A model of the Zep conversation-database client (ZepConversationDB),    *)
(* of the chat application built on it (SimpleChatApp) and of the smoke    *)
(* test (test_zep.main), together with the memory service they talk to.    *)
(* Every client operation is synchronous: it builds its request, the       *)
(* service answers it, and the operation returns or raises.  One action    *)
(* is one whole invocation.  The service itself is not part of the Python  *)
(* sources; it is modelled from the specification (sections 3, 4 and 6).   *)
(***************************************************************************)
EXTENDS Integers, Sequences, FiniteSets, TLC

VARIABLES
    users,      \* service: user_id -> stored user record, or NoJson
    sessions,   \* service: sequence of session records, in creation order
    store,      \* service: session_id -> sequence of stored messages
    last,       \* the last invocation: operation, arguments, requests, responses, outcome
    lastBatch,  \* session_id -> the caller's messages of the last accepted append
    writes,     \* session_id -> number of accepted appends (counted up to 2)
    seen,       \* the context reads of one session since its last accepted append
    current_user,     \* SimpleChatApp.current_user
    current_session,  \* SimpleChatApp.current_session
    pc,         \* test_zep.main: the step it is at
    t_user_id,  \* test_zep.main: user_id
    t_session_id,  \* test_zep.main: session_id
    demo        \* the demo of the chat application that runs, and where it is

svcVars == <<users, sessions, store>>
obsVars == <<lastBatch, writes, seen>>
appVars == <<current_user, current_session>>
testVars == <<pc, t_user_id, t_session_id>>
demoVars == <<demo>>
vars == <<users, sessions, store, last, lastBatch, writes, seen,
          current_user, current_session, pc, t_user_id, t_session_id, demo>>

----------------------------------------------------------------------------
(* Bounds of the model. *)

MaxStore == 3      \* messages the service holds, all sessions together
MaxBatch == 3      \* longest batch a caller passes
MaxLastN == 2      \* largest explicit last_n a caller passes
MaxHeld == 1       \* messages the service holds when the operations are called directly

(* Program constants. *)

DefaultLastN == 10

----------------------------------------------------------------------------
(* Values. *)

None == "None"                      \* Python None, JSON null
NoJson == [none |-> TRUE]           \* no JSON value
NoBody == [nobody |-> TRUE]         \* a request without a body
Unparseable == [unparseable |-> TRUE]   \* a response body that is not JSON
ErrorBody == [message |-> "error"]  \* the JSON body of an error response
AckBody == [message |-> "OK"]       \* the JSON body acknowledging an append

GenIds == {"conv-a", "conv-b"}      \* ids create_conversation may generate
TestUserIds == {"test-user-a", "test-user-b"}   \* ids the smoke test may generate
TestSessionIds == {"test-session-a"}
UserIds == {"u1", "u2"} \cup TestUserIds
SessionIds == {"s1"} \cup GenIds \cup TestSessionIds
SessionIdArgs == {None, "", "s1"}   \* session_id arguments of create_conversation
MetadataArgs == {None, "{}", "{k}"}
OkStatuses == {200, 201}
FailStatuses == {300, 404, 500}
NoResponse == 0                     \* the transport failed before any response
Statuses == OkStatuses \cup FailStatuses

(* What comes back for a request: a status, and whether an error body is JSON. *)
Ans(st, parse) == [status |-> st, parse |-> parse]
Answers ==
    {Ans(st, TRUE) : st \in Statuses \cup {NoResponse}} \cup {Ans(300, FALSE)}
FactLists == {<<>>, <<"f1">>}       \* facts the service may derive (opaque)
Times == {"t1", "t2"}               \* values of the local clock

RawMsgs ==
    { [role |-> "user", content |-> "hello"],
      [role |-> "assistant", content |-> "hi", metadata |-> "{k}"] }

SeqsUpTo(S, n) == UNION { [1..k -> S] : k \in 0..n }

Batches == SeqsUpTo(RawMsgs, MaxBatch)

LastNArgs == (1..MaxLastN) \cup {DefaultLastN}

----------------------------------------------------------------------------
(* The memory service. *)

Request(method, path, query, body) ==
    [method |-> method, path |-> path, query |-> query, body |-> body]

SessionExists(sid) == \E i \in 1..Len(sessions) : sessions[i].session_id = sid

SessionsOf(uid) ==
    LET Owned(r) == r.user_id = uid IN SelectSeq(sessions, Owned)

LastN(s, n) == IF Len(s) <= n THEN s ELSE SubSeq(s, Len(s) - n + 1, Len(s))

TotalStored == LET RECURSIVE Sum(_)
                   Sum(S) == IF S = {} THEN 0
                             ELSE LET x == CHOOSE y \in S : TRUE
                                  IN Len(store[x]) + Sum(S \ {x})
               IN Sum(SessionIds)

IsHealth(req) == req.method = "GET" /\ req.path = <<"healthz">>
IsCreateUser(req) == req.method = "POST" /\ req.path = <<"users">>
IsGetUser(req) == req.method = "GET" /\ Len(req.path) = 2 /\ req.path[1] = "users"
IsCreateSession(req) == req.method = "POST" /\ req.path = <<"sessions">>
IsListSessions(req) ==
    req.method = "GET" /\ Len(req.path) = 3 /\ req.path[1] = "users"
IsAppend(req) ==
    req.method = "POST" /\ Len(req.path) = 3 /\ req.path[1] = "sessions"
IsGetMemory(req) ==
    req.method = "GET" /\ Len(req.path) = 3 /\ req.path[1] = "sessions"

(* Whether the service can answer the request with a success status. *)
SvcValid(req) ==
    CASE IsHealth(req) -> TRUE
      [] IsCreateUser(req) -> req.body.user_id \in UserIds
      [] IsGetUser(req) -> req.path[2] \in UserIds /\ users[req.path[2]] # NoJson
      [] IsCreateSession(req) ->
            /\ req.body.user_id \in UserIds
            /\ users[req.body.user_id] # NoJson
            /\ req.body.session_id \in SessionIds
            /\ ~SessionExists(req.body.session_id)
      [] IsListSessions(req) -> req.path[2] \in UserIds /\ users[req.path[2]] # NoJson
      [] IsAppend(req) -> SessionExists(req.path[2])
      [] IsGetMemory(req) ->
            SessionExists(req.path[2]) /\ \A i \in 1..Len(req.query) : req.query[i] >= 1
      [] OTHER -> FALSE

(* The JSON body of the service's success response. *)
SvcBody(req, facts) ==
    CASE IsHealth(req) -> [status |-> "ok"]
      [] IsCreateUser(req) -> req.body
      [] IsGetUser(req) -> users[req.path[2]]
      [] IsCreateSession(req) ->
            [session_id |-> req.body.session_id, user_id |-> req.body.user_id]
      [] IsListSessions(req) -> [list |-> SessionsOf(req.path[2])]
      [] IsAppend(req) -> AckBody
      [] IsGetMemory(req) ->
            [messages |-> IF req.query = <<>> THEN store[req.path[2]]
                          ELSE LastN(store[req.path[2]], req.query[1]),
             relevant_facts |-> facts, context |-> ""]
      [] OTHER -> ErrorBody

(* The response to a request the service answered with status st. *)
Respond(req, st, parse, facts) ==
    [status |-> st,
     json |-> IF st \in OkStatuses THEN SvcBody(req, facts)
              ELSE IF parse THEN ErrorBody ELSE Unparseable]

(* The service handles one request; it changes only on a success. *)
Serve(req, st) ==
    /\ st \in OkStatuses => SvcValid(req)
    /\ users' = IF st \in OkStatuses /\ IsCreateUser(req)
                THEN [users EXCEPT ![req.body.user_id] = req.body]
                ELSE users
    /\ sessions' = IF st \in OkStatuses /\ IsCreateSession(req)
                   THEN Append(sessions,
                               [session_id |-> req.body.session_id,
                                user_id |-> req.body.user_id])
                   ELSE sessions
    /\ store' = IF st \in OkStatuses /\ IsAppend(req)
                THEN [store EXCEPT ![req.path[2]] = @ \o req.body.messages]
                ELSE store

----------------------------------------------------------------------------
(* ZepConversationDB. *)

Return(v) == [kind |-> "return", status |-> 0, value |-> v]
Raise(kind, status) == [kind |-> kind, status |-> status, value |-> NoJson]

(* response.raise_for_status(): raises HTTPError for a 4xx or 5xx status. *)
RaiseForStatus(status) == 400 <= status /\ status < 600

(* response.raise_for_status(); return response.json() *)
ReturnJson(resp) ==
    IF RaiseForStatus(resp.status) THEN Raise("HTTPError", resp.status)
    ELSE IF resp.json = Unparseable THEN Raise("JSONDecodeError", 0)
    ELSE Return(resp.json)

(* metadata or {} *)
OrEmpty(metadata) == IF metadata \in {None, "{}"} THEN "{}" ELSE metadata

(* requests.post / requests.get: the responses obtained for one request. *)
Sent(req, ans, facts) ==
    IF ans.status = NoResponse THEN <<>>
    ELSE <<Respond(req, ans.status, ans.parse, facts)>>

(* What one function did: the requests it issued, the responses, its outcome. *)
Did(req, resps, outcome) ==
    [reqs |-> <<req>>, resps |-> resps,
     outcome |-> IF resps = <<>> THEN Raise("ConnectionError", 0) ELSE outcome]

(* The function returned normally. *)
Returned(c) == c.outcome.kind = "return"

(* dict.get(key, default) *)
Get(json, key, default) == IF key \in DOMAIN json THEN json[key] ELSE default

(* A returned str. *)
Str(s) == [str |-> s]

CreateUserReq(user_id, email, first_name, last_name, metadata) ==
    Request("POST", <<"users">>, <<>>,
            [user_id |-> user_id, email |-> email, first_name |-> first_name,
             last_name |-> last_name, metadata |-> OrEmpty(metadata)])

CreateUser(user_id, email, first_name, last_name, metadata, ans) ==
    LET req == CreateUserReq(user_id, email, first_name, last_name, metadata)
        resps == Sent(req, ans, <<>>)
    IN  Did(req, resps, IF resps = <<>> THEN NoJson ELSE ReturnJson(resps[1]))

(* Faulty variant: an id is generated only when session_id is None. *)
SessionIdUsed_OnlyNone(session_id, gen) ==
    IF session_id = None THEN gen ELSE session_id

(* if not session_id: session_id = f"conv-{uuid.uuid4().hex[:8]}" *)
SessionIdUsed(session_id, gen) ==
    IF session_id \in {None, ""} THEN gen ELSE session_id

CreateConversationReq(user_id, session_id, metadata) ==
    Request("POST", <<"sessions">>, <<>>,
            [user_id |-> user_id, session_id |-> session_id,
             metadata |-> OrEmpty(metadata)])

CreateConversation(user_id, session_id, metadata, gen, ans) ==
    LET sid == SessionIdUsed(session_id, gen)
        req == CreateConversationReq(user_id, sid, metadata)
        resps == Sent(req, ans, <<>>)
    IN  Did(req, resps,
            IF resps = <<>> THEN NoJson
            ELSE IF RaiseForStatus(resps[1].status)
                 THEN Raise("HTTPError", resps[1].status)
                 ELSE Return(Str(sid)))

MemoryPath(session_id) == <<"sessions", session_id, "memory">>

(* Faulty variant: the metadata is sent as given, None included. *)
AddMessageBody_RawMetadata(role, content, metadata) ==
    [messages |-> << [role |-> role, role_type |-> role, content |-> content,
                      metadata |-> metadata] >>]

AddMessageBody(role, content, metadata) ==
    [messages |-> << [role |-> role, role_type |-> role, content |-> content,
                      metadata |-> OrEmpty(metadata)] >>]

AddMessage(session_id, role, content, metadata, ans) ==
    LET req == Request("POST", MemoryPath(session_id), <<>>,
                       AddMessageBody(role, content, metadata))
        resps == Sent(req, ans, <<>>)
    IN  Did(req, resps, IF resps = <<>> THEN NoJson ELSE ReturnJson(resps[1]))

(* Faulty variant: role and content change places. *)
FormatMessage_Swapped(msg) ==
    [role |-> msg.content, role_type |-> msg.content, content |-> msg.role,
     metadata |-> Get(msg, "metadata", "{}")]

FormatMessage(msg) ==
    [role |-> msg.role, role_type |-> msg.role, content |-> msg.content,
     metadata |-> Get(msg, "metadata", "{}")]

(* Faulty variant: the messages are sent last first. *)
FormatMessages_Reversed(messages) ==
    [i \in 1..Len(messages) |-> FormatMessage(messages[Len(messages) + 1 - i])]

FormatMessages(messages) ==
    [i \in 1..Len(messages) |-> FormatMessage(messages[i])]

AddConversationBatch(session_id, messages, ans) ==
    LET req == Request("POST", MemoryPath(session_id), <<>>,
                       [messages |-> FormatMessages(messages)])
        resps == Sent(req, ans, <<>>)
    IN  Did(req, resps, IF resps = <<>> THEN NoJson ELSE ReturnJson(resps[1]))

(* Faulty variant: one message more than asked for is requested. *)
GetContextReq_OneMore(session_id, last_n) ==
    Request("GET", MemoryPath(session_id), <<last_n + 1>>, NoBody)

GetContextReq(session_id, last_n) ==
    Request("GET", MemoryPath(session_id), <<last_n>>, NoBody)

GetConversationContext(session_id, last_n, ans, facts) ==
    LET req == GetContextReq(session_id, last_n)
        resps == Sent(req, ans, facts)
    IN  Did(req, resps, IF resps = <<>> THEN NoJson ELSE ReturnJson(resps[1]))

GetUserConversations(user_id, ans) ==
    LET req == Request("GET", <<"users", user_id, "sessions">>, <<>>, NoBody)
        resps == Sent(req, ans, <<>>)
    IN  Did(req, resps, IF resps = <<>> THEN NoJson ELSE ReturnJson(resps[1]))

SearchConversations(user_id, query, ans) == GetUserConversations(user_id, ans)

(* Faulty variant: the facts are counted instead of the messages. *)
Summary_CountsFacts(session_id, context, now) ==
    [session_id |-> session_id,
     message_count |-> Len(Get(context, "relevant_facts", <<>>)),
     relevant_facts |-> Get(context, "relevant_facts", <<>>),
     context |-> Get(context, "context", ""),
     last_updated |-> now]

Summary(session_id, context, now) ==
    [session_id |-> session_id,
     message_count |-> Len(Get(context, "messages", <<>>)),
     relevant_facts |-> Get(context, "relevant_facts", <<>>),
     context |-> Get(context, "context", ""),
     last_updated |-> now]

GetConversationSummary(session_id, ans, facts, now) ==
    LET c == GetConversationContext(session_id, DefaultLastN, ans, facts)
    IN  [c EXCEPT !.outcome =
            IF c.outcome.kind = "return"
            THEN Return(Summary(session_id, c.outcome.value, now))
            ELSE c.outcome]

(* One invocation: the service handles the request, the caller gets the outcome. *)
Invoke(op, args, c, ans) ==
    /\ Serve(c.reqs[1], ans.status)
    /\ last' = [op |-> op, args |-> args, reqs |-> c.reqs, resps |-> c.resps,
                outcome |-> c.outcome]

create_user(user_id, email, first_name, last_name, metadata, ans) ==
    Invoke("create_user",
           [user_id |-> user_id, email |-> email, first_name |-> first_name,
            last_name |-> last_name, metadata |-> metadata],
           CreateUser(user_id, email, first_name, last_name, metadata, ans), ans)

create_conversation(user_id, session_id, metadata, gen, ans) ==
    Invoke("create_conversation",
           [user_id |-> user_id, session_id |-> session_id, metadata |-> metadata],
           CreateConversation(user_id, session_id, metadata, gen, ans), ans)

add_message(session_id, role, content, metadata, ans) ==
    Invoke("add_message",
           [session_id |-> session_id, role |-> role, content |-> content,
            metadata |-> metadata],
           AddMessage(session_id, role, content, metadata, ans), ans)

add_conversation_batch(session_id, messages, ans) ==
    Invoke("add_conversation_batch",
           [session_id |-> session_id, messages |-> messages],
           AddConversationBatch(session_id, messages, ans), ans)

(* Faulty variant: a context returned for the session by the previous invocation is
   returned again, without a request. *)
get_conversation_context_Cached(session_id, last_n, ans, facts) ==
    IF /\ last.op = "get_conversation_context"
       /\ last.args.session_id = session_id
       /\ Returned(last)
    THEN /\ UNCHANGED svcVars
         /\ last' = [op |-> "get_conversation_context",
                     args |-> [session_id |-> session_id, last_n |-> last_n],
                     reqs |-> <<>>, resps |-> <<>>, outcome |-> last.outcome]
    ELSE Invoke("get_conversation_context",
                [session_id |-> session_id, last_n |-> last_n],
                GetConversationContext(session_id, last_n, ans, facts), ans)

get_conversation_context(session_id, last_n, ans, facts) ==
    Invoke("get_conversation_context",
           [session_id |-> session_id, last_n |-> last_n],
           GetConversationContext(session_id, last_n, ans, facts), ans)

get_user_conversations(user_id, ans) ==
    Invoke("get_user_conversations", [user_id |-> user_id],
           GetUserConversations(user_id, ans), ans)

search_conversations(user_id, query, ans) ==
    Invoke("search_conversations", [user_id |-> user_id, query |-> query],
           SearchConversations(user_id, query, ans), ans)

get_conversation_summary(session_id, ans, facts, now) ==
    Invoke("get_conversation_summary", [session_id |-> session_id],
           GetConversationSummary(session_id, ans, facts, now), ans)

----------------------------------------------------------------------------
(* Initial state: an empty service, nothing invoked yet. *)

NoCall == [op |-> "none", args |-> NoJson, reqs |-> <<>>, resps |-> <<>>,
           outcome |-> Return(NoJson)]

NoSeen == [session_id |-> None, last_n |-> 0, counts |-> {}, reads |-> 0]

Fresh ==
    /\ users = [u \in UserIds |-> NoJson]
    /\ sessions = <<>>
    /\ store = [s \in SessionIds |-> <<>>]
    /\ last = NoCall
    /\ lastBatch = [s \in SessionIds |-> <<>>]
    /\ writes = [s \in SessionIds |-> 0]
    /\ seen = NoSeen
    /\ current_user = NoJson
    /\ current_session = None
    /\ t_user_id = None
    /\ t_session_id = None

(* No program but the caller of the operations is running. *)
Init == Fresh /\ pc = "off" /\ demo = "none"

(* The bound on what the service holds. *)
Room(n, max) == TotalStored + n <= max

----------------------------------------------------------------------------
(* Spec: a caller invoking the operations of ZepConversationDB directly. *)

AddMessageArgs ==
    { <<"user", "hello", None>>, <<"user", "hello", "{}">>,
      <<"assistant", "hi", "{k}">> }

CallCreateUser ==
    \E ans \in Answers : create_user("u1", None, None, None, None, ans)

CallCreateConversation ==
    \E u \in {"u1", "u2"}, s \in SessionIdArgs, gen \in GenIds, ans \in Answers :
        create_conversation(u, s, None, gen, ans)

CallAddMessage ==
    \E s \in {"s1", "conv-a"}, m \in AddMessageArgs, ans \in Answers :
        /\ Room(1, MaxHeld)
        /\ add_message(s, m[1], m[2], m[3], ans)

CallAddConversationBatch ==
    \E s \in {"s1"}, b \in SeqsUpTo(RawMsgs, 1), ans \in Answers :
        /\ Room(Len(b), MaxHeld)
        /\ add_conversation_batch(s, b, ans)

CallGetConversationContext ==
    \E s \in {"s1"}, k \in {1, DefaultLastN}, ans \in Answers, f \in FactLists :
        get_conversation_context(s, k, ans, f)

CallGetUserConversations ==
    \E ans \in Answers : get_user_conversations("u1", ans)

CallSearchConversations ==
    \E q \in {"hello", "zzz"}, ans \in Answers : search_conversations("u1", q, ans)

CallGetConversationSummary ==
    \E s \in {"s1"}, ans \in Answers, f \in FactLists, now \in Times :
        get_conversation_summary(s, ans, f, now)

(* Nothing but the service and the record of the invocation changes. *)
Unwatched == UNCHANGED <<obsVars, appVars, testVars, demoVars>>

Next ==
    \/ CallCreateUser /\ Unwatched
    \/ CallCreateConversation /\ Unwatched
    \/ CallAddMessage /\ Unwatched
    \/ CallAddConversationBatch /\ Unwatched
    \/ CallGetConversationContext /\ Unwatched
    \/ CallGetUserConversations /\ Unwatched
    \/ CallSearchConversations /\ Unwatched
    \/ CallGetConversationSummary /\ Unwatched

Spec == Init /\ [][Next]_vars

----------------------------------------------------------------------------
(* What a caller can tell from the invocations so far. *)

Accepted(c) == Len(c.resps) = 1 /\ c.resps[1].status \in OkStatuses

IsWrite(c) == c.op \in {"add_message", "add_conversation_batch"}

IsRead(c) == c.op = "get_conversation_context"

(* The caller's messages of an append, as passed. *)
Written(c) ==
    IF c.op = "add_message"
    THEN << [role |-> c.args.role, content |-> c.args.content,
             metadata |-> c.args.metadata] >>
    ELSE c.args.messages

(* len(context.get("messages", [])) *)
MessageCount(context) == Len(Get(context, "messages", <<>>))

UpTo2(n) == IF n < 2 THEN n + 1 ELSE 2

ObserveWrites ==
    LET c == last'
        sid == c.args.session_id
    IN  IF IsWrite(c) /\ Accepted(c)
        THEN /\ lastBatch' = [lastBatch EXCEPT ![sid] = Written(c)]
             /\ writes' = [writes EXCEPT ![sid] = UpTo2(@)]
        ELSE UNCHANGED <<lastBatch, writes>>

ObserveReads ==
    LET c == last'
        sid == c.args.session_id
    IN  seen' =
          IF IsWrite(c) /\ Accepted(c)
          THEN IF sid = seen.session_id THEN NoSeen ELSE seen
          ELSE IF IsRead(c) /\ Accepted(c)
          THEN IF seen.session_id = sid /\ seen.last_n = c.args.last_n
               THEN [seen EXCEPT !.counts = @ \cup {MessageCount(c.outcome.value)},
                                 !.reads = UpTo2(@)]
               ELSE [session_id |-> sid, last_n |-> c.args.last_n,
                     counts |-> {MessageCount(c.outcome.value)}, reads |-> 1]
          ELSE seen

----------------------------------------------------------------------------
(* SpecStore: one conversation written and read back through the client. *)

StoreAnswers == {Ans(200, TRUE), Ans(300, TRUE), Ans(500, TRUE), Ans(NoResponse, TRUE)}

(* Batches in which the two speakers alternate. *)
ConversationBatches ==
    { b \in Batches : \A i \in 1..(Len(b) - 1) : b[i] # b[i + 1] }

StoreCreateUser ==
    \E ans \in StoreAnswers : create_user("u1", None, None, None, None, ans)

StoreCreateConversation ==
    \E ans \in StoreAnswers : create_conversation("u1", "s1", None, "conv-a", ans)

StoreAddMessage ==
    \E m \in AddMessageArgs, ans \in StoreAnswers :
        /\ Room(1, MaxStore)
        /\ add_message("s1", m[1], m[2], m[3], ans)

StoreAddConversationBatch ==
    \E b \in ConversationBatches, ans \in StoreAnswers :
        /\ Room(Len(b), MaxStore)
        /\ add_conversation_batch("s1", b, ans)

StoreGetConversationContext ==
    \E k \in LastNArgs, ans \in StoreAnswers :
        get_conversation_context("s1", k, ans, <<>>)

WatchWrites == ObserveWrites /\ UNCHANGED <<seen, appVars, testVars, demoVars>>

NextStore ==
    \/ StoreCreateUser /\ WatchWrites
    \/ StoreCreateConversation /\ WatchWrites
    \/ StoreAddMessage /\ WatchWrites
    \/ StoreAddConversationBatch /\ WatchWrites
    \/ StoreGetConversationContext /\ WatchWrites

SpecStore == Init /\ [][NextStore]_vars

(* SpecReads: the same calls, watching what repeated reads return. *)
WatchReads ==
    ObserveReads /\ UNCHANGED <<lastBatch, writes, appVars, testVars, demoVars>>

NextReads ==
    \/ StoreCreateUser /\ WatchReads
    \/ StoreCreateConversation /\ WatchReads
    \/ StoreAddMessage /\ WatchReads
    \/ StoreAddConversationBatch /\ WatchReads
    \/ StoreGetConversationContext /\ WatchReads

SpecReads == Init /\ [][NextReads]_vars

----------------------------------------------------------------------------
(* SpecLong: a session that grows past the default last_n. *)

LongStore == DefaultLastN + 2

LongAnswers == {Ans(200, TRUE), Ans(300, TRUE), Ans(300, FALSE), Ans(500, TRUE)}

LongBatches == { b \in Batches : Len(b) >= 1 /\ \A i \in 1..Len(b) : b[i].role = "user" }

LongCreateUser ==
    \E ans \in LongAnswers : create_user("u1", None, None, None, None, ans)

LongCreateConversation ==
    \E ans \in LongAnswers : create_conversation("u1", "s1", None, "conv-a", ans)

LongAddConversationBatch ==
    \E b \in LongBatches, ans \in LongAnswers :
        /\ Room(Len(b), LongStore)
        /\ add_conversation_batch("s1", b, ans)

LongGetConversationContext ==
    \E k \in LastNArgs, ans \in LongAnswers :
        get_conversation_context("s1", k, ans, <<>>)

LongGetConversationSummary ==
    \E ans \in LongAnswers, now \in Times :
        get_conversation_summary("s1", ans, <<>>, now)

NextLong ==
    \/ LongCreateUser /\ Unwatched
    \/ LongCreateConversation /\ Unwatched
    \/ LongAddConversationBatch /\ Unwatched
    \/ LongGetConversationContext /\ Unwatched
    \/ LongGetConversationSummary /\ Unwatched

SpecLong == Init /\ [][NextLong]_vars

----------------------------------------------------------------------------
(* SimpleChatApp. *)

Bool(b) == [bool |-> b]

(* email or f"{user_id}@example.com" *)
EmailOr(email, user_id) ==
    IF email \in {None, ""} THEN <<user_id, "@example.com">> ELSE email

(* name or user_id *)
NameOr(name, user_id) == IF name \in {None, ""} THEN user_id ELSE name

GetUserReq(user_id) == Request("GET", <<"users", user_id>>, <<>>, NoBody)

login_user(user_id, name, email, a1, a2) ==
    LET get == GetUserReq(user_id)
        r1 == Sent(get, a1, <<>>)
        c == CreateUser(user_id, EmailOr(email, user_id), NameOr(name, user_id),
                        None, None, a2)
        args == [user_id |-> user_id, name |-> name, email |-> email]
        Done(reqs, resps, ok) ==
            last' = [op |-> "login_user", args |-> args, reqs |-> reqs,
                     resps |-> resps, outcome |-> Return(Bool(ok))]
    IN  /\ a1.status \in OkStatuses => SvcValid(get)
        /\ IF r1 = <<>>
           THEN /\ Done(<<get>>, <<>>, FALSE)
                /\ UNCHANGED <<svcVars, current_user>>
           ELSE IF r1[1].status = 200
           THEN /\ Done(<<get>>, r1, r1[1].json # Unparseable)
                /\ current_user' = IF r1[1].json # Unparseable THEN r1[1].json
                                   ELSE current_user
                /\ UNCHANGED svcVars
           ELSE /\ Serve(c.reqs[1], a2.status)
                /\ Done(<<get>> \o c.reqs, r1 \o c.resps, Returned(c))
                /\ current_user' = IF Returned(c) THEN c.outcome.value
                                   ELSE current_user
        /\ UNCHANGED current_session

start_conversation(topic, gen, ans) ==
    LET args == [topic |-> topic]
        Done(reqs, resps, outcome) ==
            last' = [op |-> "start_conversation", args |-> args, reqs |-> reqs,
                     resps |-> resps, outcome |-> outcome]
    IN  /\ IF current_user = NoJson
           THEN /\ Done(<<>>, <<>>, Return(Bool(FALSE)))
                /\ UNCHANGED <<svcVars, current_session>>
           ELSE IF "user_id" \notin DOMAIN current_user
           THEN /\ Done(<<>>, <<>>, Raise("KeyError", 0))
                /\ UNCHANGED <<svcVars, current_session>>
           ELSE LET c == CreateConversation(current_user.user_id, None, "{k}",
                                            gen, ans)
                IN  /\ Serve(c.reqs[1], ans.status)
                    /\ Done(c.reqs, c.resps,
                            IF Returned(c) THEN Return(Bool(TRUE)) ELSE c.outcome)
                    /\ current_session' = IF Returned(c) THEN c.outcome.value.str
                                          ELSE current_session
        /\ UNCHANGED current_user

send_message(message, role, ans) ==
    LET args == [message |-> message, role |-> role]
        Done(reqs, resps, ok) ==
            last' = [op |-> "send_message", args |-> args, reqs |-> reqs,
                     resps |-> resps, outcome |-> Return(Bool(ok))]
    IN  /\ IF current_session \in {None, ""}
           THEN /\ Done(<<>>, <<>>, FALSE)
                /\ UNCHANGED svcVars
           ELSE LET c == AddMessage(current_session, role, message, "{k}", ans)
                IN  /\ Serve(c.reqs[1], ans.status)
                    /\ Done(c.reqs, c.resps, Returned(c))
        /\ UNCHANGED appVars

(* A returned list. *)
List(seq) == [list |-> seq]

get_conversation_history(limit, ans, facts) ==
    LET args == [limit |-> limit]
        Done(reqs, resps, value) ==
            last' = [op |-> "get_conversation_history", args |-> args,
                     reqs |-> reqs, resps |-> resps, outcome |-> Return(value)]
    IN  /\ IF current_session \in {None, ""}
           THEN /\ Done(<<>>, <<>>, List(<<>>))
                /\ UNCHANGED svcVars
           ELSE LET c == GetConversationContext(current_session, limit, ans, facts)
                IN  /\ Serve(c.reqs[1], ans.status)
                    /\ Done(c.reqs, c.resps,
                            IF Returned(c)
                            THEN List(Get(c.outcome.value, "messages", <<>>))
                            ELSE List(<<>>))
        /\ UNCHANGED appVars

(* SimpleChatApp.get_conversation_summary; None is returned as NoJson. *)
app_get_conversation_summary(ans, facts, now) ==
    LET Done(reqs, resps, value) ==
            last' = [op |-> "SimpleChatApp.get_conversation_summary",
                     args |-> NoJson, reqs |-> reqs, resps |-> resps,
                     outcome |-> Return(value)]
    IN  /\ IF current_session \in {None, ""}
           THEN /\ Done(<<>>, <<>>, NoJson)
                /\ UNCHANGED svcVars
           ELSE LET c == GetConversationSummary(current_session, ans, facts, now)
                IN  /\ Serve(c.reqs[1], ans.status)
                    /\ Done(c.reqs, c.resps,
                            IF Returned(c) THEN c.outcome.value ELSE NoJson)
        /\ UNCHANGED appVars

list_user_conversations(ans) ==
    LET Done(reqs, resps, value) ==
            last' = [op |-> "list_user_conversations", args |-> NoJson,
                     reqs |-> reqs, resps |-> resps, outcome |-> Return(value)]
    IN  /\ IF current_user = NoJson \/ "user_id" \notin DOMAIN current_user
           THEN /\ Done(<<>>, <<>>, List(<<>>))
                /\ UNCHANGED svcVars
           ELSE LET c == GetUserConversations(current_user.user_id, ans)
                IN  /\ Serve(c.reqs[1], ans.status)
                    /\ Done(c.reqs, c.resps,
                            IF Returned(c) THEN c.outcome.value ELSE List(<<>>))
        /\ UNCHANGED appVars

----------------------------------------------------------------------------
(* test_zep: the smoke test. *)

MemoryData ==
    << [role |-> "user", role_type |-> "user", content |-> "shoes"],
       [role |-> "assistant", role_type |-> "assistant", content |-> "budget"],
       [role |-> "user", role_type |-> "user", content |-> "marathon"],
       [role |-> "assistant", role_type |-> "assistant", content |-> "pegasus"] >>

(* One step of main: the request it issues and where main goes next. *)
TestStep(op, req, ans, next) ==
    LET resps == Sent(req, ans, <<>>)
    IN  /\ Serve(req, ans.status)
        /\ last' = [op |-> op, args |-> NoJson, reqs |-> <<req>>, resps |-> resps,
                    outcome |-> IF resps = <<>> THEN Raise("ConnectionError", 0)
                                ELSE Return(Bool(next # "done"))]
        /\ pc' = IF resps = <<>> THEN "done" ELSE next

test_health(ans) ==
    /\ pc = "health"
    /\ TestStep("test_health", Request("GET", <<"healthz">>, <<>>, NoBody), ans,
                IF ans.status = 200 THEN "create_user" ELSE "done")
    /\ UNCHANGED <<t_user_id, t_session_id>>

test_create_user(gen, ans) ==
    LET req == Request("POST", <<"users">>, <<>>,
                       [user_id |-> gen, email |-> "test@example.com",
                        first_name |-> "Test", last_name |-> "User"])
    IN  /\ pc = "create_user"
        /\ TestStep("test_create_user", req, ans,
                    IF ans.status = 201 THEN "create_session" ELSE "done")
        /\ t_user_id' = IF ans.status = 201
                        THEN Respond(req, ans.status, ans.parse, <<>>).json.user_id
                        ELSE None
        /\ UNCHANGED t_session_id

test_create_session(gen, ans) ==
    LET req == Request("POST", <<"sessions">>, <<>>,
                       [user_id |-> t_user_id, session_id |-> gen])
    IN  /\ pc = "create_session"
        /\ TestStep("test_create_session", req, ans,
                    IF ans.status = 201 THEN "add_memory" ELSE "done")
        /\ t_session_id' = IF ans.status = 201
                           THEN Respond(req, ans.status, ans.parse, <<>>).json.session_id
                           ELSE None
        /\ UNCHANGED t_user_id

test_add_memory(ans) ==
    /\ pc = "add_memory"
    /\ TestStep("test_add_memory",
                Request("POST", MemoryPath(t_session_id), <<>>,
                        [messages |-> MemoryData]),
                ans, IF ans.status = 201 THEN "get_memory" ELSE "done")
    /\ UNCHANGED <<t_user_id, t_session_id>>

test_get_memory(ans) ==
    /\ pc = "get_memory"
    /\ TestStep("test_get_memory",
                Request("GET", MemoryPath(t_session_id), <<>>, NoBody), ans, "done")
    /\ UNCHANGED <<t_user_id, t_session_id>>

----------------------------------------------------------------------------
(* SpecApp: a run of the chat application, or a run of the smoke test. *)

MaxSent == 2       \* messages the chat application sends

AppAnswers ==
    {Ans(200, TRUE), Ans(201, TRUE), Ans(300, TRUE), Ans(500, TRUE),
     Ans(NoResponse, TRUE)}

InitPrograms == Fresh /\ pc \in {"off", "health"} /\ demo = "none"

AppLoginUser ==
    \E u \in {"u1", "u2"}, a1 \in AppAnswers, a2 \in AppAnswers :
        login_user(u, None, None, a1, a2)

AppStartConversation ==
    \E gen \in GenIds, ans \in AppAnswers : start_conversation(None, gen, ans)

AppSendMessage ==
    \E ans \in AppAnswers :
        /\ Room(1, MaxSent)
        /\ send_message("hello", "user", ans)

TestHealth == \E ans \in AppAnswers : test_health(ans)

TestCreateUser ==
    \E gen \in TestUserIds, ans \in AppAnswers : test_create_user(gen, ans)

TestCreateSession ==
    \E gen \in TestSessionIds, ans \in AppAnswers : test_create_session(gen, ans)

TestAddMemory == \E ans \in AppAnswers : test_add_memory(ans)

TestGetMemory == \E ans \in AppAnswers : test_get_memory(ans)

(* The chat application runs, the smoke test does not. *)
AppRuns == pc = "off" /\ UNCHANGED <<obsVars, testVars, demoVars>>

(* The smoke test runs (each step checks where main is). *)
TestRuns == UNCHANGED <<obsVars, appVars, demoVars>>

NextApp ==
    \/ AppLoginUser /\ AppRuns
    \/ AppStartConversation /\ AppRuns
    \/ AppSendMessage /\ AppRuns
    \/ TestHealth /\ TestRuns
    \/ TestCreateUser /\ TestRuns
    \/ TestCreateSession /\ TestRuns
    \/ TestAddMemory /\ TestRuns
    \/ TestGetMemory /\ TestRuns

SpecApp == InitPrograms /\ [][NextApp]_vars

----------------------------------------------------------------------------
(* SpecDemo: a run of interactive_demo or of automated_demo.  The variable  *)
(* demo holds where the demo is: "i_login", "i_menu", "i_reply" in the      *)
(* interactive demo; "a_login", "a_start", "a_send", "a_list" in the        *)
(* automated one; "exited" once the demo returned and "aborted" once an     *)
(* exception left it.                                                       *)

DemoAnswers == {Ans(200, TRUE), Ans(300, TRUE), Ans(500, TRUE), Ans(NoResponse, TRUE)}

InitDemo == Fresh /\ pc = "off" /\ demo \in {"i_login", "a_login"}

(* Where the demo goes after a call that may raise. *)
Uncaught(next) == demo' = IF Returned(last') THEN next ELSE "aborted"

(* if not app.login_user(user_id, name, email): return *)
DemoInteractiveLogin ==
    /\ demo = "i_login"
    /\ \E a1 \in DemoAnswers, a2 \in DemoAnswers : login_user("u1", "", "", a1, a2)
    /\ demo' = IF last'.outcome.value = Bool(TRUE) THEN "i_menu" ELSE "exited"

(* app.login_user(user_id, "Demo User", "demo@example.com") *)
DemoAutomatedLogin ==
    /\ demo = "a_login"
    /\ \E a1 \in DemoAnswers, a2 \in DemoAnswers :
          login_user("u1", "Demo User", "demo@example.com", a1, a2)
    /\ demo' = "a_start"

DemoStartConversation ==
    /\ demo \in {"i_menu", "a_start"}
    /\ \E topic \in {None, "Technical Support"}, gen \in GenIds, ans \in DemoAnswers :
          /\ (demo = "a_start") = (topic # None)
          /\ start_conversation(topic, gen, ans)
    /\ Uncaught(IF demo = "a_start" THEN "a_send" ELSE demo)

(* The message of the user; the interactive demo then sends a reply. *)
DemoSendMessage ==
    /\ demo \in {"i_menu", "a_send"}
    /\ demo = "i_menu" => current_session \notin {None, ""}
    /\ Room(IF demo = "i_menu" THEN 2 ELSE 1, MaxSent)
    /\ \E ans \in DemoAnswers : send_message("hello", "user", ans)
    /\ demo' = IF demo = "i_menu" THEN "i_reply" ELSE demo

DemoSendReply ==
    /\ demo \in {"i_reply", "a_send"}
    /\ Room(1, MaxSent)
    /\ \E ans \in DemoAnswers : send_message("hi", "assistant", ans)
    /\ demo' = IF demo = "i_reply" THEN "i_menu" ELSE demo

DemoHistory ==
    /\ demo = "i_menu"
    /\ \E ans \in DemoAnswers : get_conversation_history(DefaultLastN, ans, <<>>)
    /\ UNCHANGED demo

DemoSummary ==
    /\ demo \in {"i_menu", "a_send"}
    /\ \E ans \in DemoAnswers, now \in {"t1"} :
          app_get_conversation_summary(ans, <<>>, now)
    /\ demo' = IF demo = "a_send" THEN "a_list" ELSE demo

DemoListConversations ==
    /\ demo \in {"i_menu", "a_list"}
    /\ \E ans \in DemoAnswers : list_user_conversations(ans)
    /\ demo' = IF demo = "a_list" THEN "exited" ELSE demo

(* choice == "6" *)
DemoExit ==
    /\ demo = "i_menu"
    /\ demo' = "exited"
    /\ UNCHANGED <<svcVars, last, appVars>>

DemoRuns == UNCHANGED <<obsVars, testVars>>

NextDemo ==
    \/ DemoInteractiveLogin /\ DemoRuns
    \/ DemoAutomatedLogin /\ DemoRuns
    \/ DemoStartConversation /\ DemoRuns
    \/ DemoSendMessage /\ DemoRuns
    \/ DemoSendReply /\ DemoRuns
    \/ DemoHistory /\ DemoRuns
    \/ DemoSummary /\ DemoRuns
    \/ DemoListConversations /\ DemoRuns
    \/ DemoExit /\ DemoRuns

SpecDemo == InitDemo /\ [][NextDemo]_vars

----------------------------------------------------------------------------
(* Properties. *)

DBOps ==
    {"create_user", "create_conversation", "add_message", "add_conversation_batch",
     "get_conversation_context", "get_user_conversations", "search_conversations",
     "get_conversation_summary"}

Responded(c) == Len(c.resps) = 1

(* The answer the last request got. *)
AnswerOf(c) ==
    IF c.resps = <<>> THEN Ans(NoResponse, TRUE)
    ELSE Ans(c.resps[1].status, c.resps[1].json # Unparseable)

(* C1: whenever an operation of ZepConversationDB got a response whose status
   is outside 200..299, it did not return normally: it raised the typed
   failure (HTTPError) that carries the status of that response. *)
C1_NonSuccessRaisesWithStatus ==
    (last.op \in DBOps /\ Responded(last) /\ last.resps[1].status \notin 200..299)
        => /\ last.outcome.kind = "HTTPError"
           /\ last.outcome.status = last.resps[1].status

(* C2: in a run of SimpleChatApp or of the smoke test, every append-messages
   request is for a session whose create-session request succeeded before,
   every create-session request is for a user obtained before, and
   start_conversation without a current_user and send_message without a
   current_session issue no request and return False. *)
C2_SessionBeforeMessages ==
    [][ /\ \A i \in 1..Len(last'.reqs) :
              /\ IsAppend(last'.reqs[i]) => SessionExists(last'.reqs[i].path[2])
              /\ IsCreateSession(last'.reqs[i]) =>
                    /\ last'.reqs[i].body.user_id \in UserIds
                    /\ users[last'.reqs[i].body.user_id] # NoJson
        /\ (last'.op = "start_conversation" /\ current_user = NoJson)
              => last'.reqs = <<>> /\ last'.outcome = Return(Bool(FALSE))
        /\ (last'.op = "send_message" /\ current_session = None)
              => last'.reqs = <<>> /\ last'.outcome = Return(Bool(FALSE)) ]_vars

(* C3: add_conversation_batch sends one request whose messages list has the
   length and the order of the caller's sequence, element i carrying the
   role and content of input element i; and a read of the session that the
   service answers with success, asking for at least as many messages as the
   last accepted batch had, returns that batch's messages, in order, as its
   most recent messages. *)
SameMessages(stored, raw) ==
    /\ Len(stored) = Len(raw)
    /\ \A i \in 1..Len(raw) :
          stored[i].role = raw[i].role /\ stored[i].content = raw[i].content

C3_BatchKeepsOrder ==
    /\ last.op = "add_conversation_batch" =>
          /\ Len(last.reqs) = 1
          /\ last.reqs[1].method = "POST"
          /\ last.reqs[1].path = MemoryPath(last.args.session_id)
          /\ SameMessages(last.reqs[1].body.messages, last.args.messages)
    /\ ( /\ IsRead(last) /\ Accepted(last)
         /\ writes[last.args.session_id] >= 1
         /\ last.args.last_n >= Len(lastBatch[last.args.session_id]) )
        => LET got == last.outcome.value.messages
               sent == lastBatch[last.args.session_id]
           IN  /\ Len(got) >= Len(sent)
               /\ SameMessages(LastN(got, Len(sent)), sent)

C3_Witness ==
    /\ IsRead(last) /\ Accepted(last)
    /\ last.args.last_n >= 3
    /\ writes[last.args.session_id] >= 1
    /\ Len(lastBatch[last.args.session_id]) = 3
    /\ lastBatch[last.args.session_id][1] # lastBatch[last.args.session_id][2]

(* C4: get_conversation_context(session_id, last_n = k) never returns more
   than k messages, however many the session holds, and the message_count
   of get_conversation_summary is never greater than the default last_n. *)
C4_AtMostLastN ==
    /\ (IsRead(last) /\ Returned(last))
          => MessageCount(last.outcome.value) <= last.args.last_n
    /\ (last.op = "get_conversation_summary" /\ Returned(last))
          => last.outcome.value.message_count <= DefaultLastN

C4_Witness ==
    /\ last.op = "get_conversation_summary" /\ Accepted(last)
    /\ Len(store[last.args.session_id]) > DefaultLastN
    /\ last.outcome.value.message_count = DefaultLastN

(* C5: when exactly one append of n messages was accepted for a session and
   a read of it with last_n >= n is answered with success, the read reports
   n messages and its first message has the role and the content of the
   first message sent. *)
C5_WriteThenRead ==
    ( /\ IsRead(last) /\ Accepted(last)
      /\ writes[last.args.session_id] = 1
      /\ Len(lastBatch[last.args.session_id]) <= last.args.last_n )
        => LET got == last.outcome.value
               sent == lastBatch[last.args.session_id]
           IN  /\ MessageCount(got) = Len(sent)
               /\ Len(sent) >= 1 =>
                     /\ got.messages[1].role = sent[1].role
                     /\ got.messages[1].content = sent[1].content

C5_Witness ==
    /\ IsRead(last) /\ Accepted(last)
    /\ last.args.last_n = DefaultLastN
    /\ writes[last.args.session_id] = 1
    /\ lastBatch[last.args.session_id] =
          << [role |-> "user", content |-> "hello"],
             [role |-> "assistant", content |-> "hi", metadata |-> "{k}"] >>
    /\ MessageCount(last.outcome.value) = 2

(* C6: every add_conversation_batch either returns an acknowledgement with
   all of its messages appended to the session, or is reported as failed
   with the session left as it was. *)
C6_BatchAtomic ==
    [][ last'.op = "add_conversation_batch" =>
          LET sid == last'.args.session_id
          IN  \/ /\ Returned(last')
                 /\ store' = [store EXCEPT
                                ![sid] = @ \o FormatMessages(last'.args.messages)]
              \/ /\ ~Returned(last')
                 /\ store' = store ]_vars

(* C7 as stated: create_conversation puts the supplied session_id into the
   request and returns it; with session_id omitted it generates a non-empty
   id, sends it and returns it. *)
C7_ReturnsSuppliedId ==
    last.op = "create_conversation" =>
        LET a == last.args.session_id
            sent == last.reqs[1].body.session_id
        IN  /\ a # None => sent = a /\ (Returned(last) => last.outcome.value = Str(a))
            /\ a = None => /\ sent # ""
                           /\ Returned(last) => last.outcome.value = Str(sent)

(* C7 amended: create_conversation puts a supplied non-empty session_id into
   the request and returns it; with session_id omitted or empty it
   generates a non-empty id, sends it and returns it; whatever the payload
   of a response that is no HTTP error. *)
C7_ReturnsIdUsed ==
    last.op = "create_conversation" =>
        LET a == last.args.session_id
            sent == last.reqs[1].body.session_id
        IN  /\ Len(last.reqs) = 1
            /\ a \notin {None, ""} => sent = a
            /\ a \in {None, ""} => sent \in GenIds /\ sent # ""
            /\ Returned(last) => last.outcome.value = Str(sent)
            /\ (Responded(last) /\ ~RaiseForStatus(last.resps[1].status))
                  => Returned(last)

C7_Witness ==
    /\ last.op = "create_conversation"
    /\ last.args.session_id = ""
    /\ Accepted(last)
    /\ last.outcome.value.str \in GenIds

(* C8: add_message issues the request, and has the outcome, of
   add_conversation_batch called with the one-element batch made of its
   role, content and metadata (no metadata key when metadata is omitted). *)
Wrap(role, content, metadata) ==
    IF metadata = None
    THEN << [role |-> role, content |-> content] >>
    ELSE << [role |-> role, content |-> content, metadata |-> metadata] >>

C8_AddMessageIsBatchOfOne ==
    last.op = "add_message" =>
        LET b == AddConversationBatch(
                     last.args.session_id,
                     Wrap(last.args.role, last.args.content, last.args.metadata),
                     AnswerOf(last))
        IN  /\ last.reqs = b.reqs
            /\ last.resps = b.resps
            /\ last.outcome = b.outcome

C8_Witness ==
    /\ last.op = "add_message"
    /\ last.args.metadata = None
    /\ Accepted(last)
    /\ Returned(last)

(* C9: the reads of one session with one last_n that the service answered
   with success, with no accepted append to the session in between, all
   reported the same number of messages; and every read issues its own GET
   request and returns what that request's response carried. *)
C9_RepeatedReadSameCount ==
    /\ Cardinality(seen.counts) <= 1
    /\ IsRead(last) =>
          /\ last.reqs = <<GetContextReq(last.args.session_id, last.args.last_n)>>
          /\ Accepted(last) => last.outcome = Return(last.resps[1].json)

C9_Witness ==
    /\ IsRead(last) /\ Accepted(last)
    /\ seen.reads = 2
    /\ seen.session_id = last.args.session_id
    /\ Len(store[seen.session_id]) >= 2
    /\ seen.counts = {1}

(* C10: every operation of ZepConversationDB issues exactly one request, and
   when that request failed (no response, or a response whose status is
   outside 200..299) the operation does not return normally. *)
C10_OneRequestFailureSurfaced ==
    last.op \in DBOps =>
        /\ Len(last.reqs) = 1
        /\ (~Responded(last) \/ last.resps[1].status \notin 200..299)
              => ~Returned(last)

(* The operations of SimpleChatApp and the value each returns on failure. *)
AppOps ==
    {"login_user", "start_conversation", "send_message", "get_conversation_history",
     "SimpleChatApp.get_conversation_summary", "list_user_conversations"}

FailureValue(op) ==
    CASE op \in {"login_user", "start_conversation", "send_message"} -> Bool(FALSE)
      [] op \in {"get_conversation_history", "list_user_conversations"} -> List(<<>>)
      [] OTHER -> NoJson

(* The last request of the invocation got no response, or one whose status
   is outside 200..299. *)
LastCallFailed(c) ==
    /\ c.reqs # <<>>
    /\ \/ Len(c.resps) < Len(c.reqs)
       \/ c.resps[Len(c.resps)].status \notin 200..299

(* C11: in a run of the interactive or of the automated demo, whenever the
   service call of an operation of SimpleChatApp failed, the operation
   returned its failure value (False, [] or None) and no exception left the
   demo: the process was not aborted. *)
C11_FailureAbortsOnlyOperation ==
    (last.op \in AppOps /\ LastCallFailed(last))
        => /\ Returned(last)
           /\ last.outcome.value = FailureValue(last.op)
           /\ demo # "aborted"

(* C12: every get_conversation_summary issues exactly one request, the GET
   of get_conversation_context with the default last_n, and what it returns
   has session_id equal to its argument, message_count equal to the number
   of messages in the body of that response (0 without a messages field),
   relevant_facts and context equal to those of the body (the empty list
   and the empty string when absent), a local time as last_updated, and no
   other field. *)
C12_SummaryFromOneContext ==
    last.op = "get_conversation_summary" =>
        /\ last.reqs = <<GetContextReq(last.args.session_id, DefaultLastN)>>
        /\ Returned(last) =>
              LET body == last.resps[1].json
                  summary == last.outcome.value
              IN  /\ DOMAIN summary = {"session_id", "message_count",
                                        "relevant_facts", "context", "last_updated"}
                  /\ summary.session_id = last.args.session_id
                  /\ summary.message_count =
                        IF "messages" \in DOMAIN body THEN Len(body.messages) ELSE 0
                  /\ summary.relevant_facts =
                        IF "relevant_facts" \in DOMAIN body THEN body.relevant_facts
                        ELSE <<>>
                  /\ summary.context =
                        IF "context" \in DOMAIN body THEN body.context ELSE ""
                  /\ summary.last_updated \in Times

C12_Witness ==
    /\ last.op = "get_conversation_summary"
    /\ Accepted(last) /\ Returned(last)
    /\ Len(store[last.args.session_id]) = 1
    /\ last.outcome.value.message_count = 1
    /\ last.outcome.value.relevant_facts = <<"f1">>

(* The service holds the session as one created for the user. *)
OwnedBy(sid, uid) ==
    \E i \in 1..Len(sessions) :
        sessions[i].session_id = sid /\ sessions[i].user_id = uid

(* C13: in SimpleChatApp, whenever current_session is set it is a session
   that was created for the user held in current_user, and every request of
   send_message appends to a session of that user. *)
C13_SessionOfCurrentUser ==
    /\ current_session # None =>
          /\ current_user # NoJson
          /\ "user_id" \in DOMAIN current_user
          /\ OwnedBy(current_session, current_user.user_id)
    /\ (last.op = "send_message" /\ last.reqs # <<>>) =>
          /\ "user_id" \in DOMAIN current_user
          /\ OwnedBy(last.reqs[1].path[2], current_user.user_id)

(* C14: a login_user that returns True has set current_user to the record
   the service returned in that call: the lookup was answered 200, or it
   was answered another status and the create-user request that followed
   was answered with success; a login_user that returns False leaves
   current_user and current_session as they were. *)
C14_LoginSetsUserOrNothing ==
    [][ last'.op = "login_user" =>
          LET c == last'
              n == Len(c.resps)
          IN  /\ c.outcome.value = Bool(TRUE) =>
                    /\ n >= 1
                    /\ current_user' = c.resps[n].json
                    /\ \/ n = 1 /\ c.resps[1].status = 200
                       \/ /\ n = 2
                          /\ c.resps[1].status # 200
                          /\ c.resps[2].status \in 200..299
              /\ c.outcome.value = Bool(FALSE) =>
                    UNCHANGED <<current_user, current_session>> ]_vars

====
